---- MODULE Spec2Model ----
(***************************************************************************)
(* Model of the therapy-api edge function                                  *)
(* (supabase/functions/therapy-api/index.ts): the serve handler, its five  *)
(* action handlers, and the two tables chat_sessions and chat_messages     *)
(* they read and write.  Every await on a table or on the LLM is one       *)
(* atomic step of a request; requests interleave between steps.            *)
(***************************************************************************)
EXTENDS Integers, Sequences, FiniteSets, TLC

(* ---------------------------- bounds ----------------------------------- *)
MaxRequests == 2
MaxSessions == 2
MaxDay == 1

(* ------------------------ program constants ---------------------------- *)
DailyLimit == 50
HistoryLimit == 10
SeqExtra == 2

(* ------------------------------ values --------------------------------- *)
\* JavaScript undefined / null for a string-valued field
Absent == "<undefined>"
\* a sessionId that is missing from the body or the query string
NoSessionId == 0
\* count: null, as returned by a failed count query
NullCount == -1
\* a response field that the response body does not carry
NoField == -1

Users == {"u1", "u2"}
Methods == {"OPTIONS", "GET", "POST"}
\* authorization header: missing, a token the auth service rejects, or a
\* token of a user
Auths == {"none", "rejected"} \cup Users
HandlerActions == {"createSession", "sendMessage", "getSessions", "getMessages", "getUserStats"}
ActionParams == HandlerActions \cup {"bogus", Absent}
NamedModes == {"reflect", "recover", "rebuild", "evolve"}
\* names every JavaScript object inherits from Object.prototype
ProtoProps == {"constructor"}
ModeInputs == NamedModes \cup ProtoProps \cup {Absent, "", "zen"}
MessageInputs == {Absent, "", "hi"}
TitleInputs == {Absent, "", "Plan"}
SessionIdInputs == 0 .. MaxSessions
LLMOutcomes == {"reply", "notok", "noreply", "throw"}
AiText == "reply-text"

Truthy(v) == v \notin {Absent, ""}
\* JavaScript a || b on strings
OrElse(a, b) == IF Truthy(a) THEN a ELSE b
Max(a, b) == IF a >= b THEN a ELSE b

VARIABLES sessions, messages, reqs, today
vars == <<sessions, messages, reqs, today>>

(* --------------------------- pure helpers ------------------------------ *)
RECURSIVE Reverse(_)
Reverse(s) == IF s = <<>> THEN <<>> ELSE Append(Reverse(Tail(s)), Head(s))

Take(s, n) == IF Len(s) <= n THEN s ELSE SubSeq(s, 1, n)

PromptOf(m) == "PROMPT:" \o m

\* prompts[mode]: an own property for the four named modes, an inherited
\* Object.prototype member (a function, not a prompt string) for the
\* inherited names, undefined otherwise
PromptsLookup(mode) ==
  IF mode \in NamedModes THEN PromptOf(mode)
  ELSE IF mode \in ProtoProps THEN "Object.prototype." \o mode
  ELSE Absent

getSystemPrompt(mode) == OrElse(PromptsLookup(mode), PromptOf("evolve"))

FixedPrompts == {PromptOf(m) : m \in NamedModes}

(* ---------------------------- table queries ---------------------------- *)
\* chat_messages: count where user_id, role = 'user', created_at in the day
CountToday(msgs, uid, day) ==
  Cardinality({i \in DOMAIN msgs :
      /\ msgs[i].user_id = uid
      /\ msgs[i].role = "user"
      /\ msgs[i].created_day = day})

\* the lookup without its .eq('user_id', userId) filter
SessionFoundAnyOwner(sess, sid, uid) == sid \in DOMAIN sess

\* chat_sessions: select where id = sid and user_id = uid, .single()
SessionFound(sess, sid, uid) ==
  /\ sid \in DOMAIN sess
  /\ sess[sid].user_id = uid

MessagesOf(msgs, sid, uid) ==
  SelectSeq(msgs, LAMBDA m : m.session_id = sid /\ m.user_id = uid)

RoleContent(s) == [i \in DOMAIN s |-> [role |-> s[i].role, content |-> s[i].content]]

\* the ten oldest messages instead of the ten newest
RecentHistoryOldest(msgs, sid, uid) ==
  RoleContent(Take(MessagesOf(msgs, sid, uid), HistoryLimit))

\* order by created_at descending, limit 10, then .reverse()
RecentHistory(msgs, sid, uid) ==
  RoleContent(Reverse(Take(Reverse(MessagesOf(msgs, sid, uid)), HistoryLimit)))

CountSessions(sess, uid) == Cardinality({i \in DOMAIN sess : sess[i].user_id = uid})

NewMessage(sid, uid, role, content, mode, day) ==
  [session_id |-> sid, user_id |-> uid, role |-> role, content |-> content,
   mode |-> mode, created_day |-> day]

(* ------------------------------ requests ------------------------------- *)
NewRequest(method, env, auth) ==
  [pc |-> "serve", method |-> method, env |-> env, auth |-> auth,
   action |-> Absent, handler |-> "none", userId |-> "none",
   badJson |-> FALSE, message |-> Absent, sessionId |-> NoSessionId,
   mode |-> Absent, title |-> Absent,
   day |-> NoField, messageCount |-> NullCount, sessMsgCount |-> NoField,
   llmMessages |-> <<>>, aiReply |-> Absent,
   calls |-> <<>>, failed |-> {}, responses |-> 0,
   status |-> 0, error |-> Absent, remaining |-> NoField, reply |-> Absent,
   respMode |-> Absent, respSessions |-> <<>>, respMessages |-> <<>>,
   respSession |-> NoSessionId, used |-> NoField, total |-> NoField]

\* return new Response(...): the request's one response
Respond(q, status, error) ==
  [q EXCEPT !.pc = "done", !.status = status, !.error = error,
            !.responses = q.responses + 1]

\* a downstream call is issued
Call(q, name) == [q EXCEPT !.calls = Append(q.calls, name)]
\* a downstream call is issued and fails
CallFailed(q, name) == [q EXCEPT !.calls = Append(q.calls, name),
                                 !.failed = q.failed \cup {name}]
Issue(q, name, ok) == IF ok THEN Call(q, name) ELSE CallFailed(q, name)

Init ==
  /\ sessions = <<>>
  /\ messages = <<>>
  /\ reqs = <<>>
  /\ today = 0

(* --------------------------- serve handler ----------------------------- *)
\* the handler with the check of the auth service's answer left out
ServeResultNoUserCheck(method, env, auth, action) ==
  LET q0 == NewRequest(method, env, auth) IN
  IF method = "OPTIONS" THEN Respond(q0, 200, Absent)
  ELSE IF ~env THEN Respond(q0, 500, "Missing required environment variables")
  ELSE IF auth = "none" THEN Respond(q0, 401, "Missing authorization header")
  ELSE LET q1 == [Call(q0, "auth") EXCEPT !.action = action,
                     !.userId = IF auth \in Users THEN auth ELSE "none"] IN
       IF action \in HandlerActions
         THEN [q1 EXCEPT !.handler = action, !.pc = action]
         ELSE Respond(q1, 400, "Invalid action")

\* the switch with its default case falling through to a handler
ServeResultDefaultHandler(method, env, auth, action) ==
  LET q0 == NewRequest(method, env, auth) IN
  IF method = "OPTIONS" THEN Respond(q0, 200, Absent)
  ELSE IF ~env THEN Respond(q0, 500, "Missing required environment variables")
  ELSE IF auth = "none" THEN Respond(q0, 401, "Missing authorization header")
  ELSE IF auth \notin Users
    THEN Respond(CallFailed(q0, "auth"), 401, "Invalid authentication")
  ELSE LET q1 == [Call(q0, "auth") EXCEPT !.userId = auth, !.action = action] IN
       IF action \in HandlerActions
         THEN [q1 EXCEPT !.handler = action, !.pc = action]
         ELSE [q1 EXCEPT !.handler = "getSessions", !.pc = "getSessions"]

\* serve(async (req) => ...) up to the switch on the action parameter
ServeResult(method, env, auth, action) ==
  LET q0 == NewRequest(method, env, auth) IN
  IF method = "OPTIONS" THEN Respond(q0, 200, Absent)
  ELSE IF ~env THEN Respond(q0, 500, "Missing required environment variables")
  ELSE IF auth = "none" THEN Respond(q0, 401, "Missing authorization header")
  ELSE IF auth \notin Users
    THEN Respond(CallFailed(q0, "auth"), 401, "Invalid authentication")
  ELSE LET q1 == [Call(q0, "auth") EXCEPT !.userId = auth, !.action = action] IN
       IF action \in HandlerActions
         THEN [q1 EXCEPT !.handler = action, !.pc = action]
         ELSE Respond(q1, 400, "Invalid action")

Serve(method, env, auth, action) ==
  /\ reqs' = Append(reqs, ServeResult(method, env, auth, action))
  /\ UNCHANGED <<sessions, messages, today>>

(* ------------------------- handleCreateSession ------------------------- *)
\* the title stored as sent, without the default
NewSessionRawTitle(uid, title, mode) ==
  [user_id |-> uid,
   title |-> title,
   current_mode |-> OrElse(mode, "evolve"),
   message_count |-> 0]

\* sessionData
NewSession(uid, title, mode) ==
  [user_id |-> uid,
   title |-> OrElse(title, "New Therapy Session"),
   current_mode |-> OrElse(mode, "evolve"),
   message_count |-> 0]

CreateSession(r, json, title, mode, ok) ==
  LET q == reqs[r] IN
  /\ q.pc = "createSession"
  /\ IF q.method # "POST"
       THEN /\ reqs' = [reqs EXCEPT ![r] = Respond(q, 405, "Method not allowed")]
            /\ UNCHANGED sessions
     ELSE IF ~json
       THEN /\ reqs' = [reqs EXCEPT ![r] = Respond([q EXCEPT !.badJson = TRUE], 500, "json")]
            /\ UNCHANGED sessions
     ELSE LET q1 == Issue([q EXCEPT !.title = title, !.mode = mode], "insertSession", ok) IN
          IF ok
            THEN /\ sessions' = Append(sessions, NewSession(q.userId, title, mode))
                 /\ reqs' = [reqs EXCEPT ![r] =
                       Respond([q1 EXCEPT !.respSession = Len(sessions) + 1], 201, Absent)]
            ELSE /\ reqs' = [reqs EXCEPT ![r] = Respond(q1, 500, "Failed to create session")]
                 /\ UNCHANGED sessions
  /\ UNCHANGED <<messages, today>>

(* -------------------------- handleSendMessage -------------------------- *)
\* the limit test written with > for >=
LimitReachedOffByOne(cnt) == cnt # NullCount /\ cnt # 0 /\ cnt > DailyLimit

\* messageCount && messageCount >= 50
LimitReached(cnt) == cnt # NullCount /\ cnt # 0 /\ cnt >= DailyLimit

\* method check, body parse, required fields, daily count query, limit check
SendResult(q, json, message, sessionId, mode, countOK, msgs, day) ==
  IF q.method # "POST" THEN Respond(q, 405, "Method not allowed")
  ELSE IF ~json THEN Respond([q EXCEPT !.badJson = TRUE], 500, "json")
  ELSE LET q1 == [q EXCEPT !.message = message, !.sessionId = sessionId, !.mode = mode] IN
       IF ~Truthy(message) \/ sessionId = NoSessionId
         THEN Respond(q1, 400, "Message and sessionId are required")
         ELSE LET cnt == IF countOK THEN CountToday(msgs, q.userId, day) ELSE NullCount
                  q2 == [Issue(q1, "count", countOK) EXCEPT !.day = day, !.messageCount = cnt]
              IN IF LimitReached(cnt)
                   THEN Respond([q2 EXCEPT !.remaining = 0], 429, "daily limit")
                   ELSE [q2 EXCEPT !.pc = "session"]

SendStart(r, json, message, sessionId, mode, countOK) ==
  /\ reqs[r].pc = "sendMessage"
  /\ reqs' = [reqs EXCEPT ![r] =
        SendResult(reqs[r], json, message, sessionId, mode, countOK, messages, today)]
  /\ UNCHANGED <<sessions, messages, today>>

\* the session lookup going straight on to the LLM call
SendSessionSkipHistory(r, ok) ==
  LET q == reqs[r]
      q1 == Issue(q, "session", ok) IN
  /\ q.pc = "session"
  /\ reqs' = [reqs EXCEPT ![r] =
        IF ok /\ SessionFound(sessions, q.sessionId, q.userId)
          THEN [q1 EXCEPT !.pc = "llm",
                          !.sessMsgCount = sessions[q.sessionId].message_count]
          ELSE Respond(q1, 404, "Session not found")]
  /\ UNCHANGED <<sessions, messages, today>>

\* Verify session exists and belongs to user
SendSession(r, ok) ==
  LET q == reqs[r]
      q1 == Issue(q, "session", ok) IN
  /\ q.pc = "session"
  /\ reqs' = [reqs EXCEPT ![r] =
        IF ok /\ SessionFound(sessions, q.sessionId, q.userId)
          THEN [q1 EXCEPT !.pc = "history",
                          !.sessMsgCount = sessions[q.sessionId].message_count]
          ELSE Respond(q1, 404, "Session not found")]
  /\ UNCHANGED <<sessions, messages, today>>

\* the openAIMessages array
OpenAIMessages(mode, history, message) ==
  <<[role |-> "system", content |-> getSystemPrompt(OrElse(mode, "evolve"))]>>
    \o history \o <<[role |-> "user", content |-> message]>>

\* Get recent message history for context, build the LLM message list
SendHistory(r, ok) ==
  LET q == reqs[r]
      hist == IF ok THEN RecentHistory(messages, q.sessionId, q.userId) ELSE <<>> IN
  /\ q.pc = "history"
  /\ reqs' = [reqs EXCEPT ![r] =
        [Issue(q, "history", ok) EXCEPT !.pc = "llm",
            !.llmMessages = OpenAIMessages(q.mode, hist, q.message)]]
  /\ UNCHANGED <<sessions, messages, today>>

\* the user message saved before the LLM's answer is checked
SendLLMSaveFirst(r, outcome) ==
  LET q == reqs[r] IN
  /\ q.pc = "llm"
  /\ messages' = Append(messages, NewMessage(q.sessionId, q.userId, "user", q.message,
                                             OrElse(q.mode, "evolve"), today))
  /\ reqs' = [reqs EXCEPT ![r] =
        IF outcome = "reply"
          THEN [Call(q, "llm") EXCEPT !.pc = "insertAssistant", !.aiReply = AiText]
        ELSE IF outcome = "notok"
          THEN Respond(CallFailed(q, "llm"), 500, "AI service temporarily unavailable")
        ELSE IF outcome = "noreply"
          THEN Respond(CallFailed(q, "llm"), 500, "Invalid AI response received")
        ELSE Respond(CallFailed(q, "llm"), 500, "fetch failed")]
  /\ UNCHANGED <<sessions, today>>

\* the LLM call repeated after a non-OK answer
SendLLMRetry(r, outcome) ==
  LET q == reqs[r] IN
  /\ q.pc = "llm"
  /\ reqs' = [reqs EXCEPT ![r] =
        IF outcome = "reply"
          THEN [Call(q, "llm") EXCEPT !.pc = "insertUser", !.aiReply = AiText]
        ELSE IF outcome = "notok"
          THEN CallFailed(q, "llm")
        ELSE IF outcome = "noreply"
          THEN Respond(CallFailed(q, "llm"), 500, "Invalid AI response received")
        ELSE Respond(CallFailed(q, "llm"), 500, "fetch failed")]
  /\ UNCHANGED <<sessions, messages, today>>

\* fetch('https://api.openai.com/v1/chat/completions')
SendLLM(r, outcome) ==
  LET q == reqs[r] IN
  /\ q.pc = "llm"
  /\ reqs' = [reqs EXCEPT ![r] =
        IF outcome = "reply"
          THEN [Call(q, "llm") EXCEPT !.pc = "insertUser", !.aiReply = AiText]
        ELSE IF outcome = "notok"
          THEN Respond(CallFailed(q, "llm"), 500, "AI service temporarily unavailable")
        ELSE IF outcome = "noreply"
          THEN Respond(CallFailed(q, "llm"), 500, "Invalid AI response received")
        ELSE Respond(CallFailed(q, "llm"), 500, "fetch failed")]
  /\ UNCHANGED <<sessions, messages, today>>

\* a failed insert of the user message only logged, the request going on
SendInsertUserLogOnly(r, ok) ==
  LET q == reqs[r]
      q1 == Issue(q, "insertUser", ok) IN
  /\ q.pc = "insertUser"
  /\ messages' = IF ok
                   THEN Append(messages, NewMessage(q.sessionId, q.userId, "user",
                                 q.message, OrElse(q.mode, "evolve"), today))
                   ELSE messages
  /\ reqs' = [reqs EXCEPT ![r] = [q1 EXCEPT !.pc = "insertAssistant"]]
  /\ UNCHANGED <<sessions, today>>

\* Save user message
SendInsertUser(r, ok) ==
  LET q == reqs[r]
      q1 == Issue(q, "insertUser", ok) IN
  /\ q.pc = "insertUser"
  /\ IF ok
       THEN /\ messages' = Append(messages, NewMessage(q.sessionId, q.userId, "user",
                                 q.message, OrElse(q.mode, "evolve"), today))
            /\ reqs' = [reqs EXCEPT ![r] = [q1 EXCEPT !.pc = "insertAssistant"]]
       ELSE /\ reqs' = [reqs EXCEPT ![r] = Respond(q1, 500, "Failed to save user message")]
            /\ UNCHANGED messages
  /\ UNCHANGED <<sessions, today>>

\* the AI reply saved with the request's mode as sent, without 'evolve'
SendInsertAssistantRawMode(r, ok) ==
  LET q == reqs[r]
      q1 == Issue(q, "insertAssistant", ok) IN
  /\ q.pc = "insertAssistant"
  /\ IF ok
       THEN /\ messages' = Append(messages, NewMessage(q.sessionId, q.userId, "assistant",
                                 q.aiReply, q.mode, today))
            /\ reqs' = [reqs EXCEPT ![r] = [q1 EXCEPT !.pc = "update"]]
       ELSE /\ reqs' = [reqs EXCEPT ![r] = Respond(q1, 500, "Failed to save AI response")]
            /\ UNCHANGED messages
  /\ UNCHANGED <<sessions, today>>

\* Save AI reply
SendInsertAssistant(r, ok) ==
  LET q == reqs[r]
      q1 == Issue(q, "insertAssistant", ok) IN
  /\ q.pc = "insertAssistant"
  /\ IF ok
       THEN /\ messages' = Append(messages, NewMessage(q.sessionId, q.userId, "assistant",
                                 q.aiReply, OrElse(q.mode, "evolve"), today))
            /\ reqs' = [reqs EXCEPT ![r] = [q1 EXCEPT !.pc = "update"]]
       ELSE /\ reqs' = [reqs EXCEPT ![r] = Respond(q1, 500, "Failed to save AI response")]
            /\ UNCHANGED messages
  /\ UNCHANGED <<sessions, today>>

\* Math.max(0, 50 - ((messageCount || 0) + 1))
RemainingAfter(cnt) == Max(0, DailyLimit - ((IF cnt = NullCount THEN 0 ELSE cnt) + 1))

\* the update without its .eq('user_id', userId) filter, and writing the
\* request's mode into the session as well
SendUpdateAnyOwner(r, ok) ==
  LET q == reqs[r]
      q1 == Issue(q, "update", ok) IN
  /\ q.pc = "update"
  /\ sessions' = IF ok /\ q.sessionId \in DOMAIN sessions
                   THEN [sessions EXCEPT ![q.sessionId].message_count = q.sessMsgCount + 1,
                                         ![q.sessionId].current_mode =
                                             OrElse(q.mode, "evolve")]
                   ELSE sessions
  /\ reqs' = [reqs EXCEPT ![r] =
        Respond([q1 EXCEPT !.reply = q.aiReply, !.respMode = OrElse(q.mode, "evolve"),
                           !.respSession = q.sessionId,
                           !.remaining = RemainingAfter(q.messageCount)], 200, Absent)]
  /\ UNCHANGED <<messages, today>>

\* Update session message count, then the 200 response
SendUpdate(r, ok) ==
  LET q == reqs[r]
      q1 == Issue(q, "update", ok) IN
  /\ q.pc = "update"
  /\ sessions' = IF ok /\ SessionFound(sessions, q.sessionId, q.userId)
                   THEN [sessions EXCEPT ![q.sessionId].message_count = q.sessMsgCount + 1]
                   ELSE sessions
  /\ reqs' = [reqs EXCEPT ![r] =
        Respond([q1 EXCEPT !.reply = q.aiReply, !.respMode = OrElse(q.mode, "evolve"),
                           !.respSession = q.sessionId,
                           !.remaining = RemainingAfter(q.messageCount)], 200, Absent)]
  /\ UNCHANGED <<messages, today>>

(* -------------------------- handleGetSessions -------------------------- *)
SessionView(sess, i) ==
  [id |-> i, title |-> sess[i].title, current_mode |-> sess[i].current_mode,
   message_count |-> sess[i].message_count]

RECURSIVE SessionsOfAll(_, _, _)
\* the select without its .eq('user_id', userId) filter
SessionsOfAll(sess, uid, i) ==
  IF i = 0 THEN <<>>
  ELSE <<SessionView(sess, i)>> \o SessionsOfAll(sess, uid, i - 1)

RECURSIVE SessionsOf(_, _, _)
\* select ... where user_id = uid order by created_at descending
SessionsOf(sess, uid, i) ==
  IF i = 0 THEN <<>>
  ELSE IF sess[i].user_id = uid
    THEN <<SessionView(sess, i)>> \o SessionsOf(sess, uid, i - 1)
    ELSE SessionsOf(sess, uid, i - 1)

GetSessions(r, ok) ==
  LET q == reqs[r]
      q1 == Issue(q, "selectSessions", ok) IN
  /\ q.pc = "getSessions"
  /\ reqs' = [reqs EXCEPT ![r] =
        IF ok
          THEN Respond([q1 EXCEPT !.respSessions = SessionsOf(sessions, q.userId, Len(sessions))],
                       200, Absent)
          ELSE Respond(q1, 500, "Failed to fetch sessions")]
  /\ UNCHANGED <<sessions, messages, today>>

(* -------------------------- handleGetMessages -------------------------- *)
\* sessionId query parameter, then: Verify session belongs to user
GetMessagesSession(r, sessionId, ok) ==
  LET q == [reqs[r] EXCEPT !.sessionId = sessionId]
      q1 == Issue(q, "session", ok) IN
  /\ q.pc = "getMessages"
  /\ reqs' = [reqs EXCEPT ![r] =
        IF sessionId = NoSessionId THEN Respond(q, 400, "Session ID is required")
        ELSE IF ok /\ SessionFound(sessions, sessionId, q.userId)
          THEN [q1 EXCEPT !.pc = "selectMessages"]
          ELSE Respond(q1, 404, "Session not found")]
  /\ UNCHANGED <<sessions, messages, today>>

MessageView(m) == [role |-> m.role, content |-> m.content, mode |-> m.mode,
                   created_day |-> m.created_day]

GetMessagesSelect(r, ok) ==
  LET q == reqs[r]
      q1 == Issue(q, "selectMessages", ok)
      found == MessagesOf(messages, q.sessionId, q.userId) IN
  /\ q.pc = "selectMessages"
  /\ reqs' = [reqs EXCEPT ![r] =
        IF ok
          THEN Respond([q1 EXCEPT !.respMessages = [i \in DOMAIN found |-> MessageView(found[i])]],
                       200, Absent)
          ELSE Respond(q1, 500, "Failed to fetch messages")]
  /\ UNCHANGED <<sessions, messages, today>>

(* -------------------------- handleGetUserStats ------------------------- *)
\* Get daily message count
StatsMessages(r, ok) ==
  LET q == reqs[r] IN
  /\ q.pc = "getUserStats"
  /\ reqs' = [reqs EXCEPT ![r] =
        [Issue(q, "count", ok) EXCEPT !.pc = "countSessions", !.day = today,
            !.messageCount = IF ok THEN CountToday(messages, q.userId, today) ELSE NullCount]]
  /\ UNCHANGED <<sessions, messages, today>>

\* Math.max(0, maxMessages - (messageCount || 0))
RemainingOf(cnt) == Max(0, DailyLimit - (IF cnt = NullCount THEN 0 ELSE cnt))

\* Get total sessions, then the 200 response
StatsSessions(r, ok) ==
  LET q == reqs[r]
      q1 == Issue(q, "countSessions", ok) IN
  /\ q.pc = "countSessions"
  /\ reqs' = [reqs EXCEPT ![r] =
        Respond([q1 EXCEPT
                   !.used = IF q.messageCount = NullCount THEN 0 ELSE q.messageCount,
                   !.remaining = RemainingOf(q.messageCount),
                   !.total = IF ok THEN CountSessions(sessions, q.userId) ELSE 0],
                200, Absent)]
  /\ UNCHANGED <<sessions, messages, today>>

(* ------------------------------- the day ------------------------------- *)
\* midnight passes: new Date() and the tables' created_at default move on
NextDay ==
  /\ today < MaxDay
  /\ today' = today + 1
  /\ UNCHANGED <<sessions, messages, reqs>>

(* --------------------------- specification ----------------------------- *)
Running == {r \in DOMAIN reqs : reqs[r].pc # "done"}

\* a request arrives and runs up to its handler's first await
Arrive ==
  \E m \in Methods, e \in BOOLEAN, a \in Auths, act \in ActionParams :
    Len(reqs) < MaxRequests /\ Serve(m, e, a, act)

\* request r resumes after an await and runs to its next one
Resume(r) ==
  \/ \E j \in BOOLEAN, t \in TitleInputs, md \in ModeInputs, ok \in BOOLEAN :
       CreateSession(r, j, t, md, ok)
  \/ \E j \in BOOLEAN, msg \in MessageInputs, sid \in SessionIdInputs,
        md \in ModeInputs, ok \in BOOLEAN :
       SendStart(r, j, msg, sid, md, ok)
  \/ \E ok \in BOOLEAN : SendSession(r, ok)
  \/ \E ok \in BOOLEAN : SendHistory(r, ok)
  \/ \E o \in LLMOutcomes : SendLLM(r, o)
  \/ \E ok \in BOOLEAN : SendInsertUser(r, ok)
  \/ \E ok \in BOOLEAN : SendInsertAssistant(r, ok)
  \/ \E ok \in BOOLEAN : SendUpdate(r, ok)
  \/ \E ok \in BOOLEAN : GetSessions(r, ok)
  \/ \E sid \in SessionIdInputs, ok \in BOOLEAN : GetMessagesSession(r, sid, ok)
  \/ \E ok \in BOOLEAN : GetMessagesSelect(r, ok)
  \/ \E ok \in BOOLEAN : StatsMessages(r, ok)
  \/ \E ok \in BOOLEAN : StatsSessions(r, ok)

Next ==
  \/ Arrive
  \/ \E r \in DOMAIN reqs : Resume(r)

Spec == Init /\ [][Next]_vars

\* every downstream call returns: a request waiting on one is resumed
SpecFair == Spec /\ \A r \in 1 .. MaxRequests : WF_vars(r \in DOMAIN reqs /\ Resume(r))

(* One user sends valid messages one after another on one day, every      *)
(* downstream call succeeding: first the sessions are created, then        *)
(* DailyLimit + SeqExtra sendMessage requests follow, each issued after    *)
(* the previous one was answered.                                          *)
SendCount == Cardinality({r \in DOMAIN reqs : reqs[r].action = "sendMessage"})

NextSeq ==
  \/ /\ Running = {}
     /\ Len(sessions) < MaxSessions
     /\ Serve("POST", TRUE, "u1", "createSession")
  \/ /\ Running = {}
     /\ Len(sessions) = MaxSessions
     /\ SendCount < DailyLimit + SeqExtra
     /\ Serve("POST", TRUE, "u1", "sendMessage")
  \/ \E r \in DOMAIN reqs : CreateSession(r, TRUE, Absent, Absent, TRUE)
  \/ \E r \in DOMAIN reqs : SendStart(r, TRUE, "hi", 1, Absent, TRUE)
  \/ \E r \in DOMAIN reqs : SendSession(r, TRUE)
  \/ \E r \in DOMAIN reqs : SendHistory(r, TRUE)
  \/ \E r \in DOMAIN reqs : SendLLM(r, "reply")
  \/ \E r \in DOMAIN reqs : SendInsertUser(r, TRUE)
  \/ \E r \in DOMAIN reqs : SendInsertAssistant(r, TRUE)
  \/ \E r \in DOMAIN reqs : SendUpdate(r, TRUE)

SpecSeq == Init /\ [][NextSeq]_vars

(* A burst of concurrent valid sendMessage requests of one user who has    *)
(* already used DailyLimit - 1 messages today, every downstream call       *)
(* succeeding: the tables are as SpecSeq leaves them after DailyLimit - 1  *)
(* answered requests (PrefillReached).                                     *)
RECURSIVE Prefill(_)
Prefill(n) ==
  IF n = 0 THEN <<>>
  ELSE Prefill(n - 1) \o <<NewMessage(1, "u1", "user", "hi", "evolve", 0),
                           NewMessage(1, "u1", "assistant", AiText, "evolve", 0)>>

PrefillSessions(n) ==
  [i \in 1 .. MaxSessions |->
     [NewSession("u1", Absent, Absent) EXCEPT !.message_count = IF i = 1 THEN n ELSE 0]]

InitBurst ==
  /\ sessions = PrefillSessions(DailyLimit - 1)
  /\ messages = Prefill(DailyLimit - 1)
  /\ reqs = <<>>
  /\ today = 0

NextBurst ==
  \/ /\ Len(reqs) < MaxRequests
     /\ Serve("POST", TRUE, "u1", "sendMessage")
  \/ \E r \in DOMAIN reqs, sid \in 1 .. MaxSessions :
       SendStart(r, TRUE, "hi", sid, Absent, TRUE)
  \/ \E r \in DOMAIN reqs : SendSession(r, TRUE)
  \/ \E r \in DOMAIN reqs : SendHistory(r, TRUE)
  \/ \E r \in DOMAIN reqs : SendLLM(r, "reply")
  \/ \E r \in DOMAIN reqs : SendInsertUser(r, TRUE)
  \/ \E r \in DOMAIN reqs : SendInsertAssistant(r, TRUE)
  \/ \E r \in DOMAIN reqs : SendUpdate(r, TRUE)
  \/ NextDay

SpecBurst == InitBurst /\ [][NextBurst]_vars

\* the state InitBurst starts from, as reached by SpecSeq
PrefillReached ==
  /\ sessions = PrefillSessions(DailyLimit - 1)
  /\ messages = Prefill(DailyLimit - 1)
  /\ Running = {}
  /\ today = 0
NotPrefillReached == ~PrefillReached

(* Reads over stored data of both users: the tables start in a state the   *)
(* handlers can leave behind (every message in a session of its user, no   *)
(* assistant message before the user message of its exchange), and         *)
(* authenticated getSessions, getMessages and getUserStats requests run,   *)
(* each table call succeeding or failing.                                  *)
MaxStored == 2

StoredSessions(owner) ==
  [i \in DOMAIN owner |-> NewSession(owner[i], Absent, Absent)]

StoredMessages(owner, pick) ==
  [i \in DOMAIN pick |->
     NewMessage(pick[i][1], owner[pick[i][1]], pick[i][2],
                IF pick[i][2] = "user" THEN "hi" ELSE AiText, "evolve", 0)]

\* in every prefix no session has more assistant than user messages
ExchangeOrder(pick) ==
  \A n \in DOMAIN pick, s \in 1 .. MaxSessions :
    Cardinality({i \in 1 .. n : pick[i] = <<s, "assistant">>})
      <= Cardinality({i \in 1 .. n : pick[i] = <<s, "user">>})

StoredTables ==
  {<<StoredSessions(owner), StoredMessages(owner, pick)>> :
     owner \in [1 .. MaxSessions -> Users],
     pick \in {p \in UNION {[1 .. n -> (1 .. MaxSessions) \X {"user", "assistant"}] :
                              n \in 0 .. MaxStored} : ExchangeOrder(p)}}

InitRead ==
  /\ \E t \in StoredTables : sessions = t[1] /\ messages = t[2]
  /\ reqs = <<>>
  /\ today = 0

NextRead ==
  \/ \E u \in Users, act \in {"getSessions", "getMessages", "getUserStats"} :
       Len(reqs) < MaxRequests /\ Serve("GET", TRUE, u, act)
  \/ \E r \in DOMAIN reqs, ok \in BOOLEAN : GetSessions(r, ok)
  \/ \E r \in DOMAIN reqs, sid \in SessionIdInputs, ok \in BOOLEAN : GetMessagesSession(r, sid, ok)
  \/ \E r \in DOMAIN reqs, ok \in BOOLEAN : GetMessagesSelect(r, ok)
  \/ \E r \in DOMAIN reqs, ok \in BOOLEAN : StatsMessages(r, ok)
  \/ \E r \in DOMAIN reqs, ok \in BOOLEAN : StatsSessions(r, ok)

SpecRead == InitRead /\ [][NextRead]_vars

(* Sends over a stored conversation: session 1 of u1 already holds n       *)
(* messages with distinct texts, alternately 'user' and 'assistant' (an    *)
(* odd n after a failed insert of a reply), and session 2 of u2 holds the  *)
(* most recent o messages of the table.  Valid sendMessage requests of     *)
(* both users run concurrently; the history fetch succeeds or fails, the   *)
(* other calls succeed.                                                    *)
MaxHistory == 12
MaxOther == 2

HistoryTexts == <<"m1", "m2", "m3", "m4", "m5", "m6", "m7", "m8", "m9", "m10",
                  "m11", "m12", "m13">>
Text(i) == HistoryTexts[((i - 1) % Len(HistoryTexts)) + 1]

StoredHistory(n, o) ==
  [i \in 1 .. n |->
     NewMessage(1, "u1", IF i % 2 = 1 THEN "user" ELSE "assistant", Text(i), "evolve", 0)]
  \o
  [i \in 1 .. o |->
     NewMessage(2, "u2", IF i % 2 = 1 THEN "user" ELSE "assistant", Text(n + i), "evolve", 0)]

HistorySessions(n, o) ==
  <<[NewSession("u1", Absent, Absent) EXCEPT !.message_count = n \div 2],
    [NewSession("u2", Absent, Absent) EXCEPT !.message_count = o \div 2]>>

InitHistory ==
  /\ \E n \in 0 .. MaxHistory, o \in 0 .. MaxOther :
       /\ sessions = HistorySessions(n, o)
       /\ messages = StoredHistory(n, o)
  /\ reqs = <<>>
  /\ today = 0

NextHistory ==
  \/ \E u \in Users : Len(reqs) < MaxRequests /\ Serve("POST", TRUE, u, "sendMessage")
  \/ \E r \in DOMAIN reqs, sid \in {1, 2}, md \in {Absent, "reflect", "constructor"} :
       SendStart(r, TRUE, "hi", sid, md, TRUE)
  \/ \E r \in DOMAIN reqs : SendSession(r, TRUE)
  \/ \E r \in DOMAIN reqs, ok \in BOOLEAN : SendHistory(r, ok)
  \/ \E r \in DOMAIN reqs : SendLLM(r, "reply")
  \/ \E r \in DOMAIN reqs : SendInsertUser(r, TRUE)
  \/ \E r \in DOMAIN reqs : SendInsertAssistant(r, TRUE)
  \/ \E r \in DOMAIN reqs : SendUpdate(r, TRUE)

SpecHistory == InitHistory /\ [][NextHistory]_vars

(* One user who has already sent n messages today, n up to DailyLimit +    *)
(* SeqExtra, issues sendMessage and getUserStats requests one after        *)
(* another, each after the previous one was answered; the count queries    *)
(* succeed or fail, the other calls succeed, and midnight may pass.        *)
InitStats ==
  /\ \E n \in 0 .. DailyLimit + SeqExtra :
       /\ sessions = PrefillSessions(n)
       /\ messages = Prefill(n)
  /\ reqs = <<>>
  /\ today = 0

NextStats ==
  \/ \E act \in {"sendMessage", "getUserStats"} :
       /\ Running = {}
       /\ Len(reqs) < MaxRequests
       /\ Serve(IF act = "sendMessage" THEN "POST" ELSE "GET", TRUE, "u1", act)
  \/ \E r \in DOMAIN reqs, ok \in BOOLEAN : SendStart(r, TRUE, "hi", 1, Absent, ok)
  \/ \E r \in DOMAIN reqs : SendSession(r, TRUE)
  \/ \E r \in DOMAIN reqs : SendHistory(r, TRUE)
  \/ \E r \in DOMAIN reqs : SendLLM(r, "reply")
  \/ \E r \in DOMAIN reqs : SendInsertUser(r, TRUE)
  \/ \E r \in DOMAIN reqs : SendInsertAssistant(r, TRUE)
  \/ \E r \in DOMAIN reqs : SendUpdate(r, TRUE)
  \/ \E r \in DOMAIN reqs, ok \in BOOLEAN : StatsMessages(r, ok)
  \/ \E r \in DOMAIN reqs, ok \in BOOLEAN : StatsSessions(r, ok)
  \/ NextDay

SpecStats == InitStats /\ [][NextStats]_vars

(* Every operation over two stored sessions of different owners: the      *)
(* tables are as two answered createSession requests, one of each user,    *)
(* leave them; authenticated requests for every handler arrive and run    *)
(* concurrently with valid bodies, the writes to chat_sessions and the     *)
(* insert of the reply succeeding or failing.                              *)
InitOwned ==
  /\ sessions = HistorySessions(0, 0)
  /\ messages = <<>>
  /\ reqs = <<>>
  /\ today = 0

NextOwned ==
  \/ \E m \in {"GET", "POST"}, u \in Users, act \in HandlerActions :
       Len(reqs) < MaxRequests /\ Serve(m, TRUE, u, act)
  \/ \E r \in DOMAIN reqs, ok \in BOOLEAN : CreateSession(r, TRUE, "Plan", "reflect", ok)
  \/ \E r \in DOMAIN reqs, sid \in {1, 2}, md \in {Absent, "reflect"} :
       SendStart(r, TRUE, "hi", sid, md, TRUE)
  \/ \E r \in DOMAIN reqs : SendSession(r, TRUE)
  \/ \E r \in DOMAIN reqs : SendHistory(r, TRUE)
  \/ \E r \in DOMAIN reqs : SendLLM(r, "reply")
  \/ \E r \in DOMAIN reqs : SendInsertUser(r, TRUE)
  \/ \E r \in DOMAIN reqs, ok \in BOOLEAN : SendInsertAssistant(r, ok)
  \/ \E r \in DOMAIN reqs, ok \in BOOLEAN : SendUpdate(r, ok)
  \/ \E r \in DOMAIN reqs : GetSessions(r, TRUE)
  \/ \E r \in DOMAIN reqs, sid \in {1, 2} : GetMessagesSession(r, sid, TRUE)
  \/ \E r \in DOMAIN reqs : GetMessagesSelect(r, TRUE)
  \/ \E r \in DOMAIN reqs : StatsMessages(r, TRUE)
  \/ \E r \in DOMAIN reqs : StatsSessions(r, TRUE)

SpecOwned == InitOwned /\ [][NextOwned]_vars

(* ------------------------------ properties ----------------------------- *)
Done(r) == reqs[r].pc = "done"
IsSend(r) == reqs[r].handler = "sendMessage"
CallSet(r) == {reqs[r].calls[i] : i \in DOMAIN reqs[r].calls}
\* the calls that read or write a table, and the call to the LLM
TableCalls == {"insertSession", "count", "session", "history", "insertUser",
               "insertAssistant", "update", "selectSessions", "selectMessages",
               "countSessions"}
DownstreamCalls == TableCalls \cup {"llm"}
\* session sid exists and is owned by uid, read off the table itself
Owns(uid, sid) == sid \in DOMAIN sessions /\ sessions[sid].user_id = uid
UserMessagesOn(uid, day) ==
  {i \in DOMAIN messages : /\ messages[i].user_id = uid
                           /\ messages[i].role = "user"
                           /\ messages[i].created_day = day}
\* the position of request r among the sendMessage requests
SendIndex(r) == Cardinality({j \in 1 .. r : reqs[j].action = "sendMessage"})
IsPrefix(s, t) == Len(s) <= Len(t) /\ s = SubSeq(t, 1, Len(s))

\* C1: one user sending valid messages one after another on one day, every
\* downstream call succeeding: each of the first 50 sendMessage requests is
\* answered 200; the 51st and every later one is answered 429 with
\* remainingMessages 0, has issued only the count query (no LLM call, no
\* insert), and the table still holds the 50 exchanges and no more.
C1_FiftyThenRejected ==
  \A r \in DOMAIN reqs :
    (reqs[r].action = "sendMessage" /\ Done(r)) =>
      IF SendIndex(r) <= 50
        THEN reqs[r].status = 200
        ELSE /\ reqs[r].status = 429
             /\ reqs[r].remaining = 0
             /\ CallSet(r) \cap (DownstreamCalls \ {"count"}) = {}
             /\ Len(messages) = 2 * 50
             /\ Cardinality(UserMessagesOn("u1", 0)) = 50

C1_Witness ==
  \E r \in DOMAIN reqs :
    /\ SendIndex(r) = 51 /\ Done(r) /\ reqs[r].status = 429
    /\ reqs[r - 1].status = 200 /\ SendIndex(r - 1) = 50

\* C2: with the environment configured, a non-OPTIONS request with no
\* authorization header or with a token the auth service rejects is
\* answered 401, runs no handler and issues no call on any table.
C2_Unauthenticated401 ==
  \A r \in DOMAIN reqs :
    (reqs[r].env /\ reqs[r].method # "OPTIONS" /\ reqs[r].auth \in {"none", "rejected"}) =>
      /\ Done(r)
      /\ reqs[r].status = 401
      /\ reqs[r].handler = "none"
      /\ CallSet(r) \cap DownstreamCalls = {}

C2_Witness ==
  /\ \E r \in DOMAIN reqs : reqs[r].auth = "rejected" /\ reqs[r].status = 401
                            /\ reqs[r].method = "POST"
  /\ \E r \in DOMAIN reqs : reqs[r].auth = "none" /\ reqs[r].status = 401

\* C3: when the session lookup of a sendMessage request runs for a
\* sessionId that names no session, or a session of another user, the
\* request is answered 404 in that step, has made no LLM call and no insert
\* or update, and the step leaves both tables unchanged; a getMessages
\* request with such a sessionId is answered 404 with no messages.
C3_Step ==
  \A r \in DOMAIN reqs :
    /\ (/\ reqs[r].pc = "session"
        /\ reqs'[r] # reqs[r]
        /\ ~Owns(reqs[r].userId, reqs[r].sessionId))
         => /\ reqs'[r].pc = "done"
            /\ reqs'[r].status = 404
            /\ reqs'[r].calls = <<"auth", "count", "session">>
            /\ sessions' = sessions
            /\ messages' = messages
    /\ (/\ reqs[r].pc = "getMessages"
        /\ reqs'[r] # reqs[r]
        /\ reqs'[r].sessionId # NoSessionId
        /\ ~Owns(reqs[r].userId, reqs'[r].sessionId))
         => /\ reqs'[r].pc = "done"
            /\ reqs'[r].status = 404
            /\ reqs'[r].respMessages = <<>>
            /\ "selectMessages" \notin {reqs'[r].calls[i] : i \in DOMAIN reqs'[r].calls}
            /\ sessions' = sessions
            /\ messages' = messages

C3_UnknownSession404 == [][C3_Step]_vars

C3_Witness ==
  \E r \in DOMAIN reqs :
    /\ IsSend(r) /\ reqs[r].status = 404 /\ ~("session" \in reqs[r].failed)
    /\ reqs[r].sessionId \in DOMAIN sessions
    /\ sessions[reqs[r].sessionId].user_id # reqs[r].userId

\* C4: every answered request in which a table call or the LLM call failed
\* was answered with status 500 and an error body.
C4_DownstreamFailure500 ==
  \A r \in DOMAIN reqs :
    (Done(r) /\ reqs[r].failed \cap DownstreamCalls # {}) =>
      reqs[r].status = 500 /\ reqs[r].error # Absent

\* C5: every stored message names an existing session whose owner is the
\* message's user.
C5_MessageBelongsToOwnSession ==
  \A i \in DOMAIN messages : Owns(messages[i].user_id, messages[i].session_id)

C5_Witness ==
  /\ Len(sessions) >= 1
  /\ \E i \in DOMAIN messages : messages[i].role = "assistant"

\* C6: the downstream calls of a sendMessage request are, in order, a
\* prefix of: (auth,) daily count, session lookup, history fetch, LLM call,
\* insert of the user message, insert of the assistant message, update of
\* message_count.
SendOrder == <<"auth", "count", "session", "history", "llm", "insertUser",
               "insertAssistant", "update">>

C6_FixedStepOrder ==
  \A r \in DOMAIN reqs : IsSend(r) => IsPrefix(reqs[r].calls, SendOrder)

C6_Witness ==
  \E r \in DOMAIN reqs : IsSend(r) /\ reqs[r].calls = SendOrder /\ reqs[r].status = 200

\* C7: the first entry of the LLM message list is the system prompt named
\* by the request's mode when that is reflect, recover, rebuild or evolve,
\* and the evolve prompt for any other or missing mode.
ExpectedPrompt(mode) ==
  IF mode \in {"reflect", "recover", "rebuild", "evolve"}
    THEN "PROMPT:" \o mode ELSE "PROMPT:evolve"

C7_PromptIsOneOfFour ==
  \A r \in DOMAIN reqs :
    (IsSend(r) /\ reqs[r].llmMessages # <<>>) =>
      /\ reqs[r].llmMessages[1].role = "system"
      /\ reqs[r].llmMessages[1].content = ExpectedPrompt(reqs[r].mode)
      /\ reqs[r].llmMessages[1].content \in FixedPrompts

\* C8: an authenticated request runs the handler its action parameter
\* names and issues only that handler's calls; with any other or no action
\* it is answered 400 'Invalid action' without any table call.
HandlerCalls(h) ==
  CASE h = "createSession" -> {"insertSession"}
    [] h = "sendMessage" -> {"count", "session", "history", "llm", "insertUser",
                             "insertAssistant", "update"}
    [] h = "getSessions" -> {"selectSessions"}
    [] h = "getMessages" -> {"session", "selectMessages"}
    [] h = "getUserStats" -> {"count", "countSessions"}
    [] OTHER -> {}

C8_DispatchByAction ==
  \A r \in DOMAIN reqs :
    reqs[r].userId \in Users =>
      IF reqs[r].action \in {"createSession", "sendMessage", "getSessions",
                             "getMessages", "getUserStats"}
        THEN /\ reqs[r].handler = reqs[r].action
             /\ CallSet(r) \cap DownstreamCalls \subseteq HandlerCalls(reqs[r].action)
        ELSE /\ Done(r)
             /\ reqs[r].status = 400
             /\ reqs[r].error = "Invalid action"
             /\ reqs[r].handler = "none"
             /\ CallSet(r) \cap DownstreamCalls = {}

C8_Witness ==
  /\ \E r \in DOMAIN reqs : reqs[r].action = "bogus" /\ reqs[r].status = 400
  /\ \E r \in DOMAIN reqs : reqs[r].action = "getUserStats" /\ reqs[r].status = 200

\* C9: within a request no downstream call is issued twice, a request in
\* flight has sent no response and can always take its next step, and an
\* answered request has sent exactly one response.
C9_NoRetryOneResponse ==
  \A r \in DOMAIN reqs :
    /\ \A i, j \in DOMAIN reqs[r].calls : reqs[r].calls[i] = reqs[r].calls[j] => i = j
    /\ reqs[r].responses = IF Done(r) THEN 1 ELSE 0
    /\ Done(r) <=> reqs[r].status # 0
    /\ ~Done(r) => ENABLED Resume(r)

\* C9, termination: under SpecFair (every downstream call returns) each
\* request that arrived is answered, with exactly one response.
C9_Terminates ==
  \A r \in 1 .. MaxRequests :
    (r \in DOMAIN reqs) ~> (r \in DOMAIN reqs /\ Done(r) /\ reqs[r].responses = 1)

C9_Witness ==
  \E r \in DOMAIN reqs :
    /\ IsSend(r) /\ Done(r) /\ reqs[r].status = 500
    /\ "llm" \in reqs[r].failed /\ reqs[r].responses = 1

\* C10: under any interleaving of sendMessage requests of one user, the
\* user-role messages stored for that user on one day number at most 50.
C10_AtMostFiftyPerDay ==
  \A u \in Users, d \in 0 .. MaxDay : Cardinality(UserMessagesOn(u, d)) <= 50


\* C11: read isolation.  The 200 response of getSessions, getMessages and
\* getUserStats issued by user A lists only rows of A, and it is the
\* response the same request gets over any other stored tables that hold
\* the same rows of A, whatever the other users own there; whether
\* getMessages finds the session does not depend on the others' rows either.
RowsOf(u, sess) == {i \in DOMAIN sess : sess[i].user_id = u}
SameFor(u, sess, msgs, t) ==
  /\ RowsOf(u, sess) = RowsOf(u, t[1])
  /\ \A i \in RowsOf(u, sess) : sess[i] = t[1][i]
  /\ SelectSeq(msgs, LAMBDA m : m.user_id = u) = SelectSeq(t[2], LAMBDA m : m.user_id = u)
OwnMessageViews(u, sid) ==
  LET own == SelectSeq(messages, LAMBDA m : m.user_id = u /\ m.session_id = sid)
  IN [i \in DOMAIN own |-> [role |-> own[i].role, content |-> own[i].content,
                            mode |-> own[i].mode, created_day |-> own[i].created_day]]

C11_ReadOver(r, t) ==
  LET q == reqs[r]
      u == q.userId IN
  /\ (q.handler = "getSessions" /\ q.status = 200) =>
        q.respSessions = SessionsOf(t[1], u, Len(t[1]))
  /\ (q.handler = "getMessages" /\ q.sessionId # NoSessionId /\ "session" \notin q.failed) =>
        /\ (q.status = 404) <=> ~SessionFound(t[1], q.sessionId, u)
        /\ (q.status = 200) =>
              q.respMessages = [i \in DOMAIN MessagesOf(t[2], q.sessionId, u) |->
                                   MessageView(MessagesOf(t[2], q.sessionId, u)[i])]
  /\ (q.handler = "getUserStats" /\ q.status = 200) =>
        /\ q.used = IF "count" \in q.failed THEN 0 ELSE CountToday(t[2], u, q.day)
        /\ q.total = IF "countSessions" \in q.failed THEN 0 ELSE CountSessions(t[1], u)

C11_ReadIsolation ==
  \A r \in DOMAIN reqs :
    Done(r) =>
      /\ \A t \in StoredTables :
           SameFor(reqs[r].userId, sessions, messages, t) => C11_ReadOver(r, t)
      /\ \A k \in DOMAIN reqs[r].respSessions :
           Owns(reqs[r].userId, reqs[r].respSessions[k].id)
      /\ (reqs[r].handler = "getMessages" /\ reqs[r].status = 200) =>
           reqs[r].respMessages = OwnMessageViews(reqs[r].userId, reqs[r].sessionId)

C11_Witness ==
  /\ \E r \in DOMAIN reqs :
       /\ reqs[r].handler = "getMessages" /\ reqs[r].status = 200
       /\ reqs[r].userId = "u1" /\ reqs[r].respMessages # <<>>
  /\ \E r \in DOMAIN reqs :
       /\ reqs[r].handler = "getSessions" /\ reqs[r].status = 200
       /\ reqs[r].userId = "u1" /\ Len(reqs[r].respSessions) = 1
  /\ \E i \in DOMAIN messages : messages[i].user_id = "u2"


\* C12: a sendMessage request answered 200 has stored two messages for its
\* session and user, a 'user' message with the request's text and after it
\* an 'assistant' message with the LLM reply that the response carries,
\* both tagged with the request's mode, or 'evolve' when none was given;
\* and the table holds exactly the messages that the requests' successful
\* inserts account for, no more.
TagOf(mode) == IF mode \in {Absent, ""} THEN "evolve" ELSE mode
Strip(m) == [session_id |-> m.session_id, user_id |-> m.user_id, role |-> m.role,
             content |-> m.content, mode |-> m.mode]
StoredBy(r, role) ==
  [session_id |-> reqs[r].sessionId, user_id |-> reqs[r].userId, role |-> role,
   content |-> IF role = "user" THEN reqs[r].message ELSE reqs[r].aiReply,
   mode |-> TagOf(reqs[r].mode)]
Inserted(r, role) ==
  LET call == IF role = "user" THEN "insertUser" ELSE "insertAssistant"
  IN call \in CallSet(r) /\ call \notin reqs[r].failed

C12_TwoMessagesStored ==
  /\ \A r \in DOMAIN reqs :
       (IsSend(r) /\ reqs[r].status = 200) =>
         /\ Inserted(r, "user") /\ Inserted(r, "assistant")
         /\ reqs[r].respMode = TagOf(reqs[r].mode)
         /\ \E i, j \in DOMAIN messages :
              /\ i < j
              /\ Strip(messages[i]) = StoredBy(r, "user")
              /\ Strip(messages[j]) = StoredBy(r, "assistant")
              /\ reqs[r].reply = messages[j].content
  /\ \A k \in DOMAIN messages :
       Cardinality({i \in DOMAIN messages : Strip(messages[i]) = Strip(messages[k])})
         = Cardinality({p \in (DOMAIN reqs) \X {"user", "assistant"} :
                          Inserted(p[1], p[2]) /\ StoredBy(p[1], p[2]) = Strip(messages[k])})
  /\ Len(messages) = Cardinality({p \in (DOMAIN reqs) \X {"user", "assistant"} :
                                    Inserted(p[1], p[2])})

C12_Witness ==
  \E r \in DOMAIN reqs :
    /\ IsSend(r) /\ reqs[r].status = 200 /\ reqs[r].mode = Absent
    /\ Len(messages) = 2 /\ messages[2].role = "assistant" /\ messages[2].mode = "evolve"


\* C13: once no request is in flight, every session's message_count is the
\* count it started the burst with (one per exchange answered 200 before)
\* plus the number of sendMessage requests on it that were answered 200.
C13_CountMatchesAnswered ==
  Running = {} =>
    \A s \in DOMAIN sessions :
      sessions[s].message_count =
        Cardinality({i \in DOMAIN Prefill(50 - 1) : Prefill(50 - 1)[i].session_id = s
                                                   /\ Prefill(50 - 1)[i].role = "assistant"})
        + Cardinality({r \in DOMAIN reqs : /\ IsSend(r) /\ reqs[r].status = 200
                                           /\ reqs[r].sessionId = s})


\* C14: when the LLM call of a sendMessage request returns a non-OK status
\* or a body with no reply content (or does not return a body at all), the
\* request is answered 500 in that step, both tables are left as they were,
\* and the request has issued no insert and no update.
C14_Step ==
  \A r \in DOMAIN reqs :
    (/\ reqs[r].pc = "llm"
     /\ reqs'[r] # reqs[r]
     /\ "llm" \in reqs'[r].failed)
      => /\ reqs'[r].pc = "done"
         /\ reqs'[r].status = 500
         /\ reqs'[r].error # Absent
         /\ messages' = messages
         /\ sessions' = sessions
         /\ \A i \in DOMAIN reqs'[r].calls :
              reqs'[r].calls[i] \notin {"insertUser", "insertAssistant", "update"}

C14_LLMFailureStoresNothing == [][C14_Step]_vars

C14_Witness ==
  \E r \in DOMAIN reqs :
    /\ IsSend(r) /\ reqs[r].status = 500
    /\ reqs[r].error = "Invalid AI response received"
    /\ messages = <<>>


\* C15 as stated: in every state in which no sendMessage request is in
\* flight, each session holds as many 'assistant' messages as 'user'
\* messages.
RoleCount(s, role) ==
  Cardinality({i \in DOMAIN messages :
                 messages[i].session_id = s /\ messages[i].role = role})

SendsInFlight == {r \in DOMAIN reqs : IsSend(r) /\ ~Done(r)}

C15_EveryUserMessageAnswered ==
  SendsInFlight = {} =>
    \A s \in DOMAIN sessions : RoleCount(s, "assistant") = RoleCount(s, "user")

\* C15, amended: in every state in which no sendMessage request is in
\* flight, each session holds one 'user' message more than 'assistant'
\* messages for every sendMessage request on it whose insert of the reply
\* failed, and is balanced otherwise: a user message is left stored without
\* its reply exactly when the insert of the reply failed.
ReplyInsertFailed(s) ==
  {r \in DOMAIN reqs : /\ IsSend(r)
                       /\ reqs[r].sessionId = s
                       /\ "insertAssistant" \in reqs[r].failed}

C15_UnansweredOnlyAfterFailedReplyInsert ==
  SendsInFlight = {} =>
    \A s \in DOMAIN sessions :
      RoleCount(s, "user") = RoleCount(s, "assistant") + Cardinality(ReplyInsertFailed(s))

C15_Witness ==
  /\ SendsInFlight = {}
  /\ \E s \in DOMAIN sessions :
       /\ ReplyInsertFailed(s) # {}
       /\ RoleCount(s, "user") = 1
       /\ RoleCount(s, "assistant") = 0


\* C16: the message list a sendMessage request sends to the LLM is the
\* system prompt, then the min(n, 10) most recently created of the n
\* messages stored for the request's session and user when the history is
\* fetched, oldest first, then the new user message; it has 2 to 12
\* entries, and the history part is empty when the history fetch fails.
C16_Stored(r) ==
  SelectSeq(messages, LAMBDA m : /\ m.session_id = reqs[r].sessionId
                                 /\ m.user_id = reqs[r].userId)

C16_Expected(r) ==
  LET stored == C16_Stored(r)
      n == Len(stored)
      k == IF n < 10 THEN n ELSE 10
      hist == IF "history" \in reqs'[r].failed
                THEN <<>>
                ELSE [i \in 1 .. k |-> [role |-> stored[n - k + i].role,
                                        content |-> stored[n - k + i].content]]
  IN <<[role |-> "system",
        content |-> getSystemPrompt(OrElse(reqs[r].mode, "evolve"))]>>
       \o hist
       \o <<[role |-> "user", content |-> reqs[r].message]>>

C16_Step ==
  \A r \in DOMAIN reqs :
    /\ (reqs[r].pc = "history" /\ reqs'[r].pc # "history") =>
         /\ reqs'[r].llmMessages = C16_Expected(r)
         /\ Len(reqs'[r].llmMessages) \in 2 .. 12
    /\ (reqs[r].pc \in {"llm", "insertUser", "insertAssistant", "update"}) =>
         reqs'[r].llmMessages = reqs[r].llmMessages

C16_HistoryWindow == [][C16_Step]_vars

C16_Witness ==
  \E r \in DOMAIN reqs :
    /\ IsSend(r)
    /\ "llm" \in CallSet(r)
    /\ Len(reqs[r].llmMessages) = 12
    /\ reqs[r].llmMessages[2].content # messages[1].content
    /\ Cardinality({i \in DOMAIN messages : messages[i].session_id = reqs[r].sessionId}) > 10


\* C17: the remainingMessages of a 200 response of sendMessage lies in
\* 0..49 and equals the remainingMessages getUserStats returns for the same
\* user in the next request on the same day; and getUserStats returns
\* remainingMessages = max(0, 50 - messagesUsedToday) for the user messages
\* stored for the day it counted, never a negative number.
C17_Answered(r) == reqs[r].pc # "done" /\ reqs'[r].pc = "done" /\ reqs'[r].status = 200

C17_Step ==
  \A r \in DOMAIN reqs :
    /\ (IsSend(r) /\ C17_Answered(r)) => reqs'[r].remaining \in 0 .. 49
    /\ (reqs[r].handler = "getUserStats" /\ C17_Answered(r)) =>
         LET used == Cardinality(UserMessagesOn(reqs[r].userId, reqs[r].day)) IN
         /\ reqs'[r].remaining >= 0
         /\ reqs'[r].remaining = (IF 50 - used > 0 THEN 50 - used ELSE 0)
         /\ (/\ r - 1 \in DOMAIN reqs
             /\ IsSend(r - 1)
             /\ reqs[r - 1].status = 200
             /\ reqs[r - 1].userId = reqs[r].userId
             /\ reqs[r - 1].day = reqs[r].day)
              => reqs'[r].remaining = reqs[r - 1].remaining

C17_RemainingAgrees == [][C17_Step]_vars

\* C17 while every count query succeeds
C17_NoCountFailure ==
  [][(\A r \in DOMAIN reqs : "count" \notin reqs'[r].failed) => C17_Step]_vars


\* C18 as stated: createSession over POST stores exactly one new session
\* (user_id the authenticated caller, message_count 0, title the body's
\* title or 'New Therapy Session', current_mode the body's mode or
\* 'evolve') and answers 201 with it; over any other method it answers 405
\* and stores nothing.
C18_Creates(r) == reqs[r].pc = "createSession" /\ reqs'[r].pc = "done"

C18_Row(r) ==
  [user_id |-> reqs[r].auth,
   title |-> IF reqs'[r].title \in {Absent, ""}
               THEN "New Therapy Session" ELSE reqs'[r].title,
   current_mode |-> IF reqs'[r].mode \in {Absent, ""} THEN "evolve" ELSE reqs'[r].mode,
   message_count |-> 0]

C18_Stored(r) ==
  /\ reqs'[r].status = 201
  /\ sessions' = Append(sessions, C18_Row(r))
  /\ reqs'[r].respSession = Len(sessions')

C18_Refused(r, status) ==
  /\ reqs'[r].status = status
  /\ sessions' = sessions

C18_PostAlwaysCreates ==
  [][\A r \in DOMAIN reqs :
       C18_Creates(r) =>
         IF reqs[r].method = "POST" THEN C18_Stored(r) ELSE C18_Refused(r, 405)]_vars

\* C18, amended: createSession over POST with a JSON body, when the insert
\* succeeds, stores exactly that one new session and answers 201 with it;
\* over POST with a body that is not JSON or when the insert fails it
\* answers 500 and stores nothing; over any other method it answers 405
\* and stores nothing.
C18_CreateOrRefuse ==
  [][\A r \in DOMAIN reqs :
       C18_Creates(r) =>
         /\ messages' = messages
         /\ IF reqs[r].method # "POST" THEN C18_Refused(r, 405)
            ELSE IF reqs'[r].badJson \/ "insertSession" \in reqs'[r].failed
              THEN C18_Refused(r, 500)
            ELSE C18_Stored(r)]_vars

C18_Witness ==
  /\ \E r \in DOMAIN reqs :
       /\ reqs[r].handler = "createSession" /\ reqs[r].status = 201
       /\ reqs[r].title = "" /\ reqs[r].mode = "zen"
       /\ sessions[reqs[r].respSession] =
            [user_id |-> reqs[r].auth, title |-> "New Therapy Session",
             current_mode |-> "zen", message_count |-> 0]
  /\ \E r \in DOMAIN reqs :
       /\ reqs[r].handler = "createSession" /\ reqs[r].status = 500
       /\ "insertSession" \in reqs[r].failed
  /\ Len(sessions) = 1


\* C19: a sendMessage request that is not a POST is answered 405, and one
\* whose body lacks a non-empty message or a non-empty sessionId is
\* answered 400; in both cases the answer comes before any table is read
\* and before any LLM call, and nothing is stored.
C19_Step ==
  \A r \in DOMAIN reqs :
    (reqs[r].pc = "sendMessage" /\ reqs'[r] # reqs[r]) =>
      LET q == reqs'[r]
          early == /\ q.pc = "done"
                   /\ \A i \in DOMAIN q.calls : q.calls[i] \notin DownstreamCalls
                   /\ messages' = messages
                   /\ sessions' = sessions
      IN /\ reqs[r].method # "POST" => (q.status = 405 /\ early)
         /\ (/\ reqs[r].method = "POST"
             /\ (q.message \in {Absent, ""} \/ q.sessionId = NoSessionId))
              => (q.status = 400 /\ early)

C19_InvalidAnswered400 == [][C19_Step]_vars

\* C19 for bodies that parse as JSON
C19_ParsedBodies ==
  [][(\A r \in DOMAIN reqs : ~reqs'[r].badJson) => C19_Step]_vars


\* C20: no step changes the user_id, title, current_mode or position (id)
\* of a stored session, and sessions are only added by createSession; the
\* message_count of a session changes only in the update step of a
\* sendMessage request that names this session and whose caller owns it;
\* every other session and every stored message is left as it was, new
\* messages being appended after the stored ones.
C20_Frozen(s) ==
  /\ sessions'[s].user_id = sessions[s].user_id
  /\ sessions'[s].title = sessions[s].title
  /\ sessions'[s].current_mode = sessions[s].current_mode

C20_Updates(r, s) ==
  /\ IsSend(r)
  /\ reqs[r].pc = "update"
  /\ reqs'[r].pc = "done"
  /\ reqs[r].sessionId = s
  /\ sessions[s].user_id = reqs[r].auth

C20_Step ==
  /\ Len(sessions') >= Len(sessions)
  /\ \A s \in DOMAIN sessions :
       /\ C20_Frozen(s)
       /\ sessions'[s].message_count # sessions[s].message_count =>
            \E r \in DOMAIN reqs : C20_Updates(r, s)
  /\ Len(sessions') > Len(sessions) =>
       \E r \in DOMAIN reqs : reqs[r].pc = "createSession" /\ reqs'[r].status = 201
  /\ Len(messages') >= Len(messages)
  /\ \A i \in DOMAIN messages : messages'[i] = messages[i]
  /\ \A r \in DOMAIN reqs :
       (IsSend(r) /\ reqs'[r] # reqs[r]) =>
         /\ Len(sessions') = Len(sessions)
         /\ \A s \in DOMAIN sessions :
              s # reqs'[r].sessionId => sessions'[s] = sessions[s]

C20_SessionFrame == [][C20_Step]_vars

C20_Witness ==
  /\ Len(sessions) = 2
  /\ sessions[1].user_id # sessions[2].user_id
  /\ \E s \in DOMAIN sessions : sessions[s].message_count > 0
  /\ \E r \in DOMAIN reqs : IsSend(r) /\ reqs[r].status = 200

====
